---- MODULE Spec2Model ----
(***************************************************************************)
(* VoiceBridge backend: the multi-channel input-normalisation and reply    *)
(* delivery pipeline of core/utils.py and core/views.py.                   *)
(*                                                                         *)
(* A Python str is a sequence of tokens; a token is one character or a     *)
(* literal of the source (the marker 'Language Code:', a language code, a  *)
(* fixed message).                                                         *)
(* None is the one-token sequence <<"None">>, which no text contains.      *)
(* External collaborators (generation backend, speech backend, ffmpeg,     *)
(* object storage, messaging transport) are outcome arguments of the       *)
(* operators, drawn by the actions.                                        *)
(***************************************************************************)
EXTENDS Naturals, Sequences, FiniteSets

VARIABLES
    GEMINI_API_KEY,     \* utils.py:20  TRUE iff the environment sets the key
    genai,              \* utils.py:28-36  TRUE iff the library was imported
    cloudinary_creds,   \* utils.py:39-43  cloud name, api key and api secret all set
    twilio_creds,       \* utils.py:22-23  TWILIO_SID and TWILIO_AUTH_TOKEN both set
    phase,              \* "idle": the worker waits for a request; "done": it has answered one
    view,               \* the view or unit operation that ran last
    request,            \* its inbound payload
    env,                \* how its collaborators ended
    response,           \* what it returned
    locals,             \* its local variables when it returned
    calls,              \* the collaborator calls it made, in order
    outbox,             \* the outbound WhatsApp sends it attempted, in order
    disk,               \* the temporary files it left on disk
    history             \* the QueryHistory table (models.py:15-21)

vars == <<GEMINI_API_KEY, genai, cloudinary_creds, twilio_creds, phase, view,
          request, env, response, locals, calls, outbox, disk, history>>

config == <<GEMINI_API_KEY, genai, cloudinary_creds, twilio_creds>>

----------------------------------------------------------------------------
(* Bounds *)

\* longest backend output the parsing specification enumerates
MaxLen == 5

----------------------------------------------------------------------------
(* Python values *)

None == <<"None">>

\* Python truthiness of an optional str: `if x` / `if not x`
Truthy(x) == x # None /\ x # <<>>

\* utils.py:238
lang_code_prefix == "Language Code:"

\* the tokens backend outputs are built from: a letter, a blank, the four
\* codes of utils.py:247, one of them in upper case, and the marker literal
Char == {"h", " ", "yo", "ig", "ha", "en", "YO", lang_code_prefix}

IsSpace(c) == c = " "

\* str.lower() on one token
LowerChar(c) == IF c = "YO" THEN "yo" ELSE c

\* a lower() that leaves upper case as it is
lower_identity(s) == s

\* str.lower()
lower(s) == [i \in 1..Len(s) |-> LowerChar(s[i])]

\* str.strip(): drop leading and trailing whitespace
strip(s) ==
    LET keep == {i \in 1..Len(s) : ~IsSpace(s[i])}
    IN  IF keep = {} THEN <<>>
        ELSE SubSeq(s, CHOOSE i \in keep : \A j \in keep : i <= j,
                       CHOOSE i \in keep : \A j \in keep : i >= j)

\* `sep in s`
Contains(s, sep) == \E i \in 1..Len(s) : s[i] = sep

\* s.split(sep, 1): a split at the FIRST occurrence
split_first(s, sep) ==
    LET at == {i \in 1..Len(s) : s[i] = sep}
        k  == CHOOSE i \in at : \A j \in at : i <= j
    IN  <<SubSeq(s, 1, k - 1), SubSeq(s, k + 1, Len(s))>>

\* s.rsplit(sep, 1) for an s that contains sep: split at the LAST occurrence
rsplit(s, sep) ==
    LET at == {i \in 1..Len(s) : s[i] = sep}
        k  == CHOOSE i \in at : \A j \in at : i >= j
    IN  <<SubSeq(s, 1, k - 1), SubSeq(s, k + 1, Len(s))>>

\* utils.py:247
SupportedCodes == {<<"yo">>, <<"ig">>, <<"ha">>, <<"en">>}

en == <<"en">>

----------------------------------------------------------------------------
(* core/utils.py *)

\* the result of a call: the value returned, whether an exception left the
\* function instead, the collaborator calls made and the files left on disk
Result(v, r, c, f) == [val |-> v, raised |-> r, calls |-> c, files |-> f]

\* pydub decodes and re-exports as mono 16 kHz wav; `decoded` is whether
\* AudioSegment.from_file and export succeed on these bytes
normalize_audio(audio_bytes, input_format, decoded) ==
    IF decoded THEN <<"wav16k">> \o audio_bytes ELSE None

\* utils.py:67-77, the part of upload_to_cloudinary inside try/except
UploadOutcome == {"ok", "no_secure_url", "non200", "exception", "open_error"}

secure_url(name) == <<"https://res.cloudinary.com/", name>>

upload_post(name, outcome) ==
    CASE outcome = "ok"            -> secure_url(name)
      [] outcome = "no_secure_url" -> None
      [] outcome = "non200"        -> None
      [] OTHER                     -> None

\* an upload that raises when the storage credentials are missing
upload_to_cloudinary_unconfigured_raises(name, is_path, outcome) ==
    IF ~cloudinary_creds
    THEN Result(None, TRUE, <<>>, {})
    ELSE IF is_path /\ outcome = "open_error"
    THEN Result(None, TRUE, <<>>, {})
    ELSE Result(upload_post(name, outcome), FALSE, <<"cloudinary.upload">>, {})

\* utils.py:38-77; is_path: file_obj is a str (a path to open, outside the
\* try block) rather than a file object
upload_to_cloudinary(name, is_path, outcome) ==
    IF ~cloudinary_creds
    THEN Result(None, FALSE, <<>>, {})
    ELSE IF is_path /\ outcome = "open_error"
    THEN Result(None, TRUE, <<>>, {})
    ELSE Result(upload_post(name, outcome), FALSE, <<"cloudinary.upload">>, {})

NotConfigured == <<"I'm sorry, Gemini is not configured. Please set GEMINI_API_KEY.">>
NotInstalled  == <<"I'm sorry, the Google Generative AI library is not installed.">>
NotUnderstood == <<"I'm sorry, I couldn't understand your request.">>

\* the generation backend's answer: it raises (network, HTTP status, malformed
\* body) or yields the text of the first candidate ("" when it carries none)
GenOutcome(texts) == [raises : BOOLEAN, text : texts]

ask_gemini(prompt, lang, g) ==
    IF ~GEMINI_API_KEY THEN Result(NotConfigured, FALSE, <<>>, {})
    ELSE IF ~genai THEN Result(NotInstalled, FALSE, <<>>, {})
    ELSE IF g.raises THEN Result(NotUnderstood, FALSE, <<"gemini.generate">>, {})
    ELSE Result(g.text, FALSE, <<"gemini.generate">>, {})

\* the steps of safe_tts and how each can end
TtsEnv == [generate_ok : BOOLEAN, write_ok : BOOLEAN, export_ok : BOOLEAN,
           upload : UploadOutcome]

\* utils.py:147-169, the body of safe_tts's try block
safe_tts_body(text, language, prefix, t) ==
    LET wav_path == <<prefix, ".wav">>
        mp3_path == <<prefix, ".mp3">>
        up       == upload_to_cloudinary(prefix, TRUE, t.upload)
    IN  IF ~t.generate_ok
        THEN Result(None, TRUE, <<"spitch.generate">>, {})
        ELSE IF ~t.write_ok
        THEN Result(None, TRUE, <<"spitch.generate">>, {})
        ELSE IF ~t.export_ok
        THEN Result(None, TRUE, <<"spitch.generate", "export_mp3">>, {wav_path})
        ELSE Result(up.val, up.raised,
                    <<"spitch.generate", "export_mp3">> \o up.calls,
                    {wav_path, mp3_path})

\* safe_tts without its except clause
safe_tts_uncaught(text, language, prefix, t) ==
    safe_tts_body(text, language, prefix, t)

\* utils.py:146-173: try the body; except Exception: return None
safe_tts(text, language, prefix, t) ==
    LET r == safe_tts_body(text, language, prefix, t)
    IN  IF r.raised THEN Result(None, FALSE, r.calls, r.files) ELSE r

\* utils.py:176-191
SttEnv(texts) == [decoded : BOOLEAN, transcribe_ok : BOOLEAN, transcript : texts,
                  translate_ok : BOOLEAN]

\* the transcript as translated to English
translated(transcript) == <<"en:">> \o transcript

\* a safe_stt that hands back the untranslated transcript when the
\* translation fails
safe_stt_untranslated(audio_bytes, language, e) ==
    LET usable_audio == normalize_audio(audio_bytes, "webm", e.decoded)
    IN  IF ~Truthy(usable_audio)
        THEN Result(None, FALSE, <<"normalize_audio">>, {})
        ELSE IF ~e.transcribe_ok
        THEN Result(None, FALSE, <<"normalize_audio", "spitch.transcribe">>, {})
        ELSE IF language = en
        THEN Result(e.transcript, FALSE,
                    <<"normalize_audio", "spitch.transcribe">>, {})
        ELSE IF ~e.translate_ok
        THEN Result(e.transcript, FALSE,
                    <<"normalize_audio", "spitch.transcribe", "spitch.translate">>, {})
        ELSE Result(translated(e.transcript), FALSE,
                    <<"normalize_audio", "spitch.transcribe", "spitch.translate">>, {})

\* utils.py:176-191: any exception is caught and gives None
safe_stt(audio_bytes, language, e) ==
    LET usable_audio == normalize_audio(audio_bytes, "webm", e.decoded)
    IN  IF ~Truthy(usable_audio)
        THEN Result(None, FALSE, <<"normalize_audio">>, {})
        ELSE IF ~e.transcribe_ok
        THEN Result(None, FALSE, <<"normalize_audio", "spitch.transcribe">>, {})
        ELSE IF language = en
        THEN Result(e.transcript, FALSE,
                    <<"normalize_audio", "spitch.transcribe">>, {})
        ELSE IF ~e.translate_ok
        THEN Result(None, FALSE,
                    <<"normalize_audio", "spitch.transcribe", "spitch.translate">>, {})
        ELSE Result(translated(e.transcript), FALSE,
                    <<"normalize_audio", "spitch.transcribe", "spitch.translate">>, {})

NotAvailable == <<"I'm sorry, Gemini is not available.">>

\* a parsing that hands back the detected code also when the reply is empty
parse_gemini_response_keeps_code(response_text) ==
    LET full_gemini_response == strip(response_text)
        marked   == Contains(full_gemini_response, lang_code_prefix)
        parts    == rsplit(full_gemini_response, lang_code_prefix)
        code_raw == lower(strip(parts[2]))
        conversational_response ==
            IF marked THEN strip(parts[1]) ELSE full_gemini_response
        detected_lang ==
            IF marked /\ code_raw \in SupportedCodes THEN code_raw ELSE en
    IN  IF ~Truthy(conversational_response)
        THEN <<None, detected_lang>>
        ELSE <<conversational_response, detected_lang>>

\* the parsing without the check for an empty reply
parse_gemini_response_unchecked(response_text) ==
    LET full_gemini_response == strip(response_text)
        marked   == Contains(full_gemini_response, lang_code_prefix)
        parts    == rsplit(full_gemini_response, lang_code_prefix)
        code_raw == lower(strip(parts[2]))
        conversational_response ==
            IF marked THEN strip(parts[1]) ELSE full_gemini_response
        detected_lang ==
            IF marked /\ code_raw \in SupportedCodes THEN code_raw ELSE en
    IN  <<conversational_response, detected_lang>>

\* utils.py:235-259: strip the backend output, split it at the marker, validate
\* the code; the pair returned is <<conversational_response, detected_lang>>
parse_gemini_response(response_text) ==
    LET full_gemini_response == strip(response_text)
        marked   == Contains(full_gemini_response, lang_code_prefix)
        parts    == rsplit(full_gemini_response, lang_code_prefix)
        code_raw == lower(strip(parts[2]))
        conversational_response ==
            IF marked THEN strip(parts[1]) ELSE full_gemini_response
        detected_lang ==
            IF marked /\ code_raw \in SupportedCodes THEN code_raw ELSE en
    IN  IF ~Truthy(conversational_response)
        THEN <<None, en>>
        ELSE <<conversational_response, detected_lang>>

\* how the collaborators of the combined call end
ConvEnv(texts) == [decoded : BOOLEAN, gen : GenOutcome(texts)]

\* utils.py:199-259, the body of the try block
safe_gemini_body(audio_bytes, input_format, text_input, e) ==
    IF Truthy(text_input)
    THEN IF e.gen.raises
         THEN Result(<<None, en>>, TRUE, <<"gemini.generate">>, {})
         ELSE Result(parse_gemini_response(e.gen.text), FALSE,
                     <<"gemini.generate">>, {})
    ELSE IF Truthy(audio_bytes)
    THEN IF ~Truthy(normalize_audio(audio_bytes, input_format, e.decoded))
         THEN Result(<<None, en>>, FALSE, <<"normalize_audio">>, {})
         ELSE IF e.gen.raises
         THEN Result(<<None, en>>, TRUE,
                     <<"normalize_audio", "gemini.generate">>, {})
         ELSE Result(parse_gemini_response(e.gen.text), FALSE,
                     <<"normalize_audio", "gemini.generate">>, {})
    ELSE Result(<<None, en>>, FALSE, <<>>, {})

\* the combined call without its except clause
safe_gemini_uncaught(audio_bytes, input_format, text_input, e) ==
    IF ~GEMINI_API_KEY \/ ~genai
    THEN Result(<<NotAvailable, en>>, FALSE, <<>>, {})
    ELSE safe_gemini_body(audio_bytes, input_format, text_input, e)

\* utils.py:193-263: the configuration check, then try the body; except
\* Exception: return None, "en"
safe_gemini_conversational_audio_or_text(audio_bytes, input_format, text_input, e) ==
    IF ~GEMINI_API_KEY \/ ~genai
    THEN Result(<<NotAvailable, en>>, FALSE, <<>>, {})
    ELSE LET r == safe_gemini_body(audio_bytes, input_format, text_input, e)
         IN  IF r.raised THEN Result(<<None, en>>, FALSE, r.calls, {}) ELSE r

\* how one outbound send ends once the credentials are there: the transport
\* accepts it, or the client raises (caught and logged inside the sender)
SendOutcome == {"accepted", "error"}

Delivery(outcome) == IF ~twilio_creds THEN "no_credentials" ELSE outcome

\* utils.py:265-292: one outbox entry per call
send_whatsapp_audio(to_number, media_url, text, outcome) ==
    [kind |-> "audio", to |-> to_number, body |-> text, media_url |-> media_url,
     delivery |-> Delivery(outcome)]

\* utils.py:294-320
send_whatsapp_message(to_number, text_message, outcome) ==
    [kind |-> "text", to |-> to_number, body |-> text_message, media_url |-> None,
     delivery |-> Delivery(outcome)]

----------------------------------------------------------------------------
(* core/views.py: helpers of WhatsAppWebhookView *)

OggBytes == <<"ogg-bytes">>

\* views.py:334-374: every failure is caught and returns None
DownloadOutcome == {"ok", "empty", "http_error", "timeout", "exception"}

\* a download without raise_for_status: the body of an error answer is
\* handed back as if it were the media
download_twilio_media_unchecked_status(media_url, outcome) ==
    IF outcome \in {"ok", "http_error"}
    THEN Result(OggBytes, FALSE, <<"twilio.get_media">>, {})
    ELSE Result(None, FALSE, <<"twilio.get_media">>, {})

\* views.py:334-374
download_twilio_media(media_url, outcome) ==
    IF outcome = "ok"
    THEN Result(OggBytes, FALSE, <<"twilio.get_media">>, {})
    ELSE Result(None, FALSE, <<"twilio.get_media">>, {})

\* how one ffmpeg run ends: exit 0 with a non-empty output file, a non-zero
\* exit, subprocess.TimeoutExpired, another exception, exit 0 with an empty or
\* missing output file
FfmpegOutcome == {"ok", "nonzero", "timeout", "exception", "empty_output"}

\* views.py:394-412
NumCommands == 3

\* tmp_ok: the temporary input file could be written; decoded: pydub can
\* decode the original bytes (asked only by the fallback)
ProcessEnv == [tmp_ok : BOOLEAN, runs : [1..NumCommands -> FfmpegOutcome],
               decoded : BOOLEAN]

\* views.py:451: `from your_audio_module import normalize_audio`; the
\* repository holds no module of that name, so the import raises ImportError
your_audio_module_importable == FALSE

\* a loop that keeps going after a success: the last success is the one used
RunsMade_last(p) ==
    LET won == {i \in 1..NumCommands : p.runs[i] = "ok"}
    IN  IF won = {} THEN NumCommands
        ELSE CHOOSE i \in won : \A j \in won : j <= i

\* the ffmpeg runs made: up to and including the first that succeeds
RunsMade(p) ==
    LET won == {i \in 1..NumCommands : p.runs[i] = "ok"}
    IN  IF won = {} THEN NumCommands
        ELSE CHOOSE i \in won : \A j \in won : i <= j

FfmpegCalls(n) == SubSeq(<<"ffmpeg1", "ffmpeg2", "ffmpeg3">>, 1, n)

\* views.py:385-462, the body of the try block
process_whatsapp_audio_body(audio_bytes, input_format, p) ==
    IF ~p.tmp_ok
    THEN Result(None, TRUE, <<>>, {})
    ELSE IF \E i \in 1..NumCommands : p.runs[i] = "ok"
    THEN Result(<<"wav16k", FfmpegCalls(RunsMade(p))[RunsMade(p)]>> \o audio_bytes,
                FALSE, FfmpegCalls(RunsMade(p)), {})
    ELSE IF ~your_audio_module_importable
    THEN Result(None, TRUE, FfmpegCalls(NumCommands),
                {<<"tmp", input_format>>, <<"tmp", ".wav">>})
    ELSE Result(normalize_audio(audio_bytes, input_format, p.decoded), FALSE,
                Append(FfmpegCalls(NumCommands), "normalize_audio"), {})

\* views.py:376-476: on an exception, remove what is left and return None
process_whatsapp_audio(audio_bytes, input_format, p) ==
    LET r == process_whatsapp_audio_body(audio_bytes, input_format, p)
    IN  IF r.raised THEN Result(None, FALSE, r.calls, {}) ELSE r

----------------------------------------------------------------------------
(* Inputs and the worker's state *)

\* every str of at most n tokens
RECURSIVE StrUpTo(_)
StrUpTo(n) ==
    IF n = 0 THEN {<<>>}
    ELSE LET shorter == StrUpTo(n - 1)
         IN  shorter \cup {Append(s, c) : s \in {x \in shorter : Len(x) = n - 1},
                                          c \in Char}

\* representative backend outputs the channel handlers are driven with
SampleOutputs ==
    { <<>>,
      <<"h", "h">>,
      <<"h", "h", " ", lang_code_prefix, " ", "yo">>,
      <<"h", lang_code_prefix, "h", lang_code_prefix, "YO", " ">>,
      <<"h", "h", lang_code_prefix, "h">>,
      <<" ", lang_code_prefix, "ig">> }

SampleText == <<"h", "h">>

NoRequest == [none |-> TRUE]

\* a collaborator the request never reached
Unreached == [unreached |-> TRUE]

\* how the collaborators of one request ended
NoEnv ==
    [download |-> "unreached", fetch |-> "unreached", upload |-> "unreached",
     process |-> Unreached, conv |-> Unreached, stt |-> Unreached,
     gen |-> Unreached, tts |-> Unreached]

InitConfig ==
    /\ GEMINI_API_KEY \in BOOLEAN
    /\ genai \in BOOLEAN
    /\ cloudinary_creds \in BOOLEAN
    /\ twilio_creds \in BOOLEAN

InitWorker ==
    /\ phase = "idle"
    /\ view = "none"
    /\ request = NoRequest
    /\ env = NoEnv
    /\ response = NoRequest
    /\ locals = NoRequest
    /\ calls = <<>>
    /\ outbox = <<>>
    /\ disk = {}

\* the view returns: its effects and what it answered stay behind
Return(v, req, ev, resp, loc, c, o, f, h) ==
    /\ phase' = "done"
    /\ view' = v
    /\ request' = req
    /\ env' = ev
    /\ response' = resp
    /\ locals' = loc
    /\ calls' = c
    /\ outbox' = o
    /\ disk' = f
    /\ history' = h
    /\ UNCHANGED config

----------------------------------------------------------------------------
(* The combined ConversationalEngine call on its own *)

\* one call of safe_gemini_conversational_audio_or_text with a text input; the
\* backend's output is arbitrary when the backend is reached at all
Converse ==
    /\ phase = "idle"
    /\ \E out \in (IF GEMINI_API_KEY /\ genai THEN StrUpTo(MaxLen) ELSE {<<>>}),
          raises \in BOOLEAN :
         /\ raises => out = <<>>
         /\ LET e == [decoded |-> TRUE, gen |-> [raises |-> raises, text |-> out]]
                r == safe_gemini_conversational_audio_or_text(None, None, SampleText, e)
            IN  Return("converse", [text_input |-> SampleText, audio_bytes |-> None],
                       [NoEnv EXCEPT !.conv = e],
                       [val |-> r.val, raised |-> r.raised],
                       NoRequest, r.calls, <<>>, {}, history)

\* the same call with audio bytes (possibly none) and no text
ConverseAudio ==
    /\ phase = "idle"
    /\ \E audio_bytes \in {<<>>, OggBytes},
          e \in ConvEnv(SampleOutputs) :
         LET r == safe_gemini_conversational_audio_or_text(audio_bytes, "ogg", None, e)
         IN  Return("converse", [text_input |-> None, audio_bytes |-> audio_bytes],
                    [NoEnv EXCEPT !.conv = e],
                    [val |-> r.val, raised |-> r.raised],
                    NoRequest, r.calls, <<>>, {}, history)

InitParse ==
    /\ GEMINI_API_KEY \in BOOLEAN
    /\ genai \in BOOLEAN
    /\ cloudinary_creds = TRUE
    /\ twilio_creds = TRUE
    /\ InitWorker
    /\ history = <<>>

NextParse == Converse \/ ConverseAudio

SpecParse == InitParse /\ [][NextParse]_vars

----------------------------------------------------------------------------
(* TextToSpeech.synthesize on its own *)

\* one call of safe_tts, every step free to fail
Synthesize ==
    /\ phase = "idle"
    /\ \E text \in {<<>>, SampleText},
          language \in SupportedCodes \cup {<<"fr">>},
          prefix \in {"assistant", "voice", "ivr", "wa"},
          t \in TtsEnv :
         LET r == safe_tts(text, language, prefix, t)
         IN  Return("tts", [text |-> text, language |-> language, prefix |-> prefix],
                    [NoEnv EXCEPT !.tts = t],
                    [val |-> r.val, raised |-> r.raised],
                    NoRequest, r.calls, <<>>, r.files, history)

InitTts ==
    /\ GEMINI_API_KEY = TRUE
    /\ genai = TRUE
    /\ cloudinary_creds \in BOOLEAN
    /\ twilio_creds = TRUE
    /\ InitWorker
    /\ history = <<>>

NextTts == Synthesize

SpecTts == InitTts /\ [][NextTts]_vars

----------------------------------------------------------------------------
(* SpeechToText.transcribe on its own *)

WebmBytes == <<"webm-bytes">>

\* what the transcription backend hears
Transcripts == {<<>>, <<"h">>, <<"h", "h">>}

\* one call of safe_stt: any language hint, every step free to fail
Transcribe ==
    /\ phase = "idle"
    /\ \E language \in SupportedCodes \cup {<<"fr">>},
          e \in SttEnv(Transcripts) :
         LET r == safe_stt(WebmBytes, language, e)
         IN  Return("stt", [audio_bytes |-> WebmBytes, language |-> language],
                    [NoEnv EXCEPT !.stt = e],
                    [val |-> r.val, raised |-> r.raised],
                    NoRequest, r.calls, <<>>, r.files, history)

InitStt ==
    /\ GEMINI_API_KEY = TRUE
    /\ genai = TRUE
    /\ cloudinary_creds = TRUE
    /\ twilio_creds = TRUE
    /\ InitWorker
    /\ history = <<>>

NextStt == Transcribe

SpecStt == InitStt /\ [][NextStt]_vars

----------------------------------------------------------------------------
(* The WhatsApp audio repair on its own *)

\* one call of process_whatsapp_audio, every ffmpeg run free to end any way
Repair ==
    /\ phase = "idle"
    /\ \E p \in ProcessEnv :
         LET r == process_whatsapp_audio(OggBytes, "ogg", p)
         IN  Return("repair", [audio_bytes |-> OggBytes, input_format |-> "ogg"],
                    [NoEnv EXCEPT !.process = p],
                    [val |-> r.val, raised |-> r.raised],
                    NoRequest, r.calls, <<>>, r.files, history)

InitRepair ==
    /\ GEMINI_API_KEY = TRUE
    /\ genai = TRUE
    /\ cloudinary_creds = TRUE
    /\ twilio_creds = TRUE
    /\ InitWorker
    /\ history = <<>>

NextRepair == Repair

SpecRepair == InitRepair /\ [][NextRepair]_vars

----------------------------------------------------------------------------
(* Two requests at once: the temporary files of safe_tts and of
   process_whatsapp_audio, one file operation per step *)

Workers == {1, 2}

\* what uuid.uuid4().hex and tempfile's random name can come out as
Ids == {"a", "b"}

\* str.replace on a path
Replace(path, old, new) ==
    [i \in 1..Len(path) |-> IF path[i] = old THEN new ELSE path[i]]

\* a waveform path without the uuid
tts_wav_path_no_uuid(prefix, id) == <<"/tmp/", prefix, ".wav">>

\* utils.py:162: f"/tmp/{prefix}_{uuid.uuid4().hex}.wav"
tts_wav_path(prefix, id) == <<"/tmp/", prefix, "_", id, ".wav">>

\* utils.py:166
tts_mp3_path(wav_path) == Replace(wav_path, ".wav", ".mp3")

\* views.py:387-389: NamedTemporaryFile(delete=False, suffix=".ogg")
repair_input_path(id) == <<"/tmp/tmp", id, ".ogg">>

\* views.py:391
repair_output_path(input_path) == Replace(input_path, ".ogg", ".wav")

\* the files of /tmp: path, content and the worker that created the file
Exists(path) == \E f \in disk : f.path = path

FileAt(path) == CHOOSE f \in disk : f.path = path

\* the file exists and another worker created it
Foreign(path, w) == Exists(path) /\ FileAt(path).owner # w

\* open(path, "wb").write(data): creates the file or truncates the one there
WriteFile(path, data, w) ==
    {f \in disk : f.path # path}
        \cup {[path |-> path, data |-> data,
                owner |-> IF Exists(path) THEN FileAt(path).owner ELSE w]}

Unlink(path) == {f \in disk : f.path # path}

\* the names handed out so far; uuid4 and NamedTemporaryFile never hand out
\* one of them again
IdsInUse == {locals[w].id : w \in Workers}

\* what each request carries: the reply to speak, the bytes to repair
ReplyOf(w) == <<"reply", w>>

BytesOf(w) == <<"ogg-bytes", w>>

Speech(text) == <<"speech">> \o text

Mp3(data) == <<"mp3">> \o data

Wav(data) == <<"wav16k">> \o data

UrlOf(data) == <<"https://res.cloudinary.com/">> \o data

NoId == "none"

\* a worker moves on: its position, and whether it touched another's file
Step(w, pc, loc, touched) ==
    locals' = [locals EXCEPT ![w] = [loc EXCEPT !.pc = pc,
                                        !.foreign = loc.foreign \/ touched]]

Finish(w, val, touched) ==
    /\ Step(w, "done", locals[w], touched)
    /\ response' = [response EXCEPT ![w] = val]

InterleavedFrame == UNCHANGED <<config, phase, view, request, calls, outbox, history>>

InitInterleaved ==
    /\ GEMINI_API_KEY = TRUE
    /\ genai = TRUE
    /\ cloudinary_creds = TRUE
    /\ twilio_creds = TRUE
    /\ phase = "running"
    /\ view = "interleaved"
    /\ request \in [Workers -> {"tts", "repair"}]
    /\ env = [w \in Workers |-> [success |-> request[w] = "tts"]]
    /\ response = [w \in Workers |-> NoRequest]
    /\ locals = [w \in Workers |->
                    [pc |-> IF request[w] = "tts" THEN "generate" ELSE "create",
                     id |-> NoId, k |-> 1, data |-> None, foreign |-> FALSE]]
    /\ calls = <<>>
    /\ outbox = <<>>
    /\ disk = {}
    /\ history = <<>>

\* a step of the worker's own job fails (backend, codec or storage error)
InjectedFailure(w) ==
    /\ Finish(w, None, FALSE)
    /\ env' = [env EXCEPT ![w].success = FALSE]
    /\ UNCHANGED disk

\* utils.py:156-160: SPITCH_CLIENT.speech.generate
TtsGenerate ==
    \E w \in Workers :
      /\ locals[w].pc = "generate"
      /\ \/ Step(w, "write", locals[w], FALSE) /\ UNCHANGED <<env, response, disk>>
         \/ InjectedFailure(w)
      /\ InterleavedFrame

\* utils.py:162-164: the waveform file is written under a new name
TtsWrite ==
    \E w \in Workers :
      /\ locals[w].pc = "write"
      /\ \/ \E id \in Ids \ IdsInUse :
              LET wav_path == tts_wav_path("wa", id)
              IN  /\ disk' = WriteFile(wav_path, Speech(ReplyOf(w)), w)
                  /\ Step(w, "export", [locals[w] EXCEPT !.id = id],
                          Foreign(wav_path, w))
                  /\ UNCHANGED <<env, response>>
         \/ InjectedFailure(w)
      /\ InterleavedFrame

\* utils.py:166-167: AudioSegment.from_wav(wav_path).export(mp3_path)
TtsExport ==
    \E w \in Workers :
      /\ locals[w].pc = "export"
      /\ LET wav_path == tts_wav_path("wa", locals[w].id)
             mp3_path == tts_mp3_path(wav_path)
         IN  IF ~Exists(wav_path)
             THEN Finish(w, None, FALSE) /\ UNCHANGED <<env, disk>>
             ELSE \/ /\ disk' = WriteFile(mp3_path, Mp3(FileAt(wav_path).data), w)
                     /\ Step(w, "upload", locals[w],
                             Foreign(wav_path, w) \/ Foreign(mp3_path, w))
                     /\ UNCHANGED <<env, response>>
                  \/ InjectedFailure(w)
      /\ InterleavedFrame

\* utils.py:169 and 60-77: the mp3 is opened and posted to storage
TtsUpload ==
    \E w \in Workers :
      /\ locals[w].pc = "upload"
      /\ LET mp3_path == tts_mp3_path(tts_wav_path("wa", locals[w].id))
         IN  IF ~Exists(mp3_path)
             THEN Finish(w, None, FALSE) /\ UNCHANGED <<env, disk>>
             ELSE \/ /\ Finish(w, UrlOf(FileAt(mp3_path).data), Foreign(mp3_path, w))
                     /\ UNCHANGED <<env, disk>>
                  \/ InjectedFailure(w)
      /\ InterleavedFrame

\* views.py:387-391: the inbound bytes go to a new temporary file
RepairCreate ==
    \E w \in Workers :
      /\ locals[w].pc = "create"
      /\ \E id \in Ids \ IdsInUse :
           LET input_path == repair_input_path(id)
           IN  /\ disk' = WriteFile(input_path, BytesOf(w), w)
               /\ Step(w, "run", [locals[w] EXCEPT !.id = id],
                       Foreign(input_path, w))
      /\ UNCHANGED <<env, response>>
      /\ InterleavedFrame

\* where the loop of views.py:414 goes after a command that did not deliver
AfterFailedCommand(w) ==
    IF locals[w].k < NumCommands
    THEN Step(w, "run", [locals[w] EXCEPT !.k = @ + 1], FALSE)
    ELSE Step(w, "except_input", locals[w], FALSE)

\* views.py:417-422: one ffmpeg command reads the input file and, when it
\* succeeds, writes the output file
RepairRun ==
    \E w \in Workers :
      /\ locals[w].pc = "run"
      /\ LET input_path  == repair_input_path(locals[w].id)
             output_path == repair_output_path(input_path)
         IN  \/ /\ env' = [env EXCEPT ![w].success = TRUE]
                /\ IF Exists(input_path)
                   THEN /\ disk' = WriteFile(output_path,
                                             Wav(FileAt(input_path).data), w)
                        /\ Step(w, "check", locals[w],
                                Foreign(input_path, w) \/ Foreign(output_path, w))
                   ELSE AfterFailedCommand(w) /\ UNCHANGED disk
             \/ AfterFailedCommand(w) /\ UNCHANGED <<env, disk>>
      /\ UNCHANGED response
      /\ InterleavedFrame

\* views.py:424-427: the output file is looked for and read
RepairCheck ==
    \E w \in Workers :
      /\ locals[w].pc = "check"
      /\ LET output_path == repair_output_path(repair_input_path(locals[w].id))
         IN  IF Exists(output_path)
             THEN Step(w, "unlink_input",
                       [locals[w] EXCEPT !.data = FileAt(output_path).data],
                       Foreign(output_path, w))
             ELSE AfterFailedCommand(w)
      /\ UNCHANGED <<env, response, disk>>
      /\ InterleavedFrame

\* views.py:432-433: os.unlink(input_path); when it raises, the bare except
\* skips the second unlink
RepairUnlinkInput ==
    \E w \in Workers :
      /\ locals[w].pc = "unlink_input"
      /\ LET input_path == repair_input_path(locals[w].id)
         IN  IF Exists(input_path)
             THEN /\ disk' = Unlink(input_path)
                  /\ Step(w, "unlink_output", locals[w], Foreign(input_path, w))
                  /\ UNCHANGED response
             ELSE Finish(w, locals[w].data, FALSE) /\ UNCHANGED disk
      /\ UNCHANGED env
      /\ InterleavedFrame

\* views.py:434-438: os.unlink(output_path); return wav_data
RepairUnlinkOutput ==
    \E w \in Workers :
      /\ locals[w].pc = "unlink_output"
      /\ LET output_path == repair_output_path(repair_input_path(locals[w].id))
         IN  /\ disk' = Unlink(output_path)
             /\ Finish(w, locals[w].data, Foreign(output_path, w))
      /\ UNCHANGED env
      /\ InterleavedFrame

\* views.py:451 raises ImportError; views.py:469-470 removes the input file
RepairExceptInput ==
    \E w \in Workers :
      /\ locals[w].pc = "except_input"
      /\ LET input_path == repair_input_path(locals[w].id)
         IN  /\ disk' = Unlink(input_path)
             /\ Step(w, "except_output", locals[w], Foreign(input_path, w))
      /\ UNCHANGED <<env, response>>
      /\ InterleavedFrame

\* views.py:471-476: removes the output file if there is one; return None
RepairExceptOutput ==
    \E w \in Workers :
      /\ locals[w].pc = "except_output"
      /\ LET output_path == repair_output_path(repair_input_path(locals[w].id))
         IN  /\ disk' = Unlink(output_path)
             /\ Finish(w, None, Foreign(output_path, w))
      /\ UNCHANGED env
      /\ InterleavedFrame

NextInterleaved ==
    \/ TtsGenerate
    \/ TtsWrite
    \/ TtsExport
    \/ TtsUpload
    \/ RepairCreate
    \/ RepairRun
    \/ RepairCheck
    \/ RepairUnlinkInput
    \/ RepairUnlinkOutput
    \/ RepairExceptInput
    \/ RepairExceptOutput

SpecInterleaved == InitInterleaved /\ [][NextInterleaved]_vars

----------------------------------------------------------------------------
(* What the handlers are driven with *)

\* outcomes of the steps a handler does not reach are never observed, so each
\* handler draws them with the steps after the first failing one fixed
HandlerTts ==
    {t \in TtsEnv :
        /\ ~t.generate_ok => t.write_ok /\ t.export_ok /\ t.upload = "ok"
        /\ ~t.write_ok => t.export_ok /\ t.upload = "ok"
        /\ ~t.export_ok => t.upload = "ok"
        /\ ~cloudinary_creds => t.upload = "ok"}

HandlerProcess ==
    {p \in ProcessEnv :
        /\ ~p.tmp_ok => \A i \in 1..NumCommands : p.runs[i] = "ok"
        /\ p.decoded
        /\ \A i \in 1..NumCommands :
              p.runs[i] = "ok" => \A j \in i..NumCommands : p.runs[j] = "ok"}

HandlerConv ==
    IF GEMINI_API_KEY /\ genai
    THEN {e \in ConvEnv(SampleOutputs) :
              /\ ~e.decoded => ~e.gen.raises /\ e.gen.text = <<>>
              /\ e.gen.raises => e.gen.text = <<>>}
    ELSE {[decoded |-> TRUE, gen |-> [raises |-> FALSE, text |-> <<>>]]}

HandlerSend == IF twilio_creds THEN SendOutcome ELSE {"error"}

user_phone == <<"whatsapp:+234">>

MediaUrl == <<"https://api.twilio.com/Media/ME0">>

RecordingUrl == <<"https://api.twilio.com/Recordings/RE0">>

\* what the framework answers when an exception leaves a view
ServerError == [status |-> 500, content_type |-> "text/html",
                body |-> <<"Server Error (500)">>]

----------------------------------------------------------------------------
(* core/views.py: WhatsAppWebhookView.post *)

WaMsgNoAccess    == <<"Sorry, I couldn't access your audio message. Can you try again?">>
WaMsgNoDownload  == <<"Sorry, I couldn't download your audio message. Can you try again?">>
WaMsgNoProcess   == <<"I couldn't process your audio format. Could you try sending a text message instead?">>
WaMsgTrouble     == <<"I had trouble understanding your audio. Could you try sending a text message instead?">>
WaMsgNothing     == <<"I couldn't understand anything in your audio message. Could you try speaking more clearly or send a text?">>
WaMsgUnexpected  == <<"There was an unexpected error with your audio message. Please try a shorter message or use text.">>
WaMsgRephrase    == <<"Sorry, I couldn't understand your text message. Can you rephrase?">>
WaMsgPrompt      == <<"I didn't receive any message. Please send an audio or text message.">>
WaMsgNoResponse  == <<"I'm sorry, I couldn't generate a response at this time. Please try again.">>
WaMsgSendFailed  == <<"An unexpected error occurred while trying to send my response. Please try again later.">>

WaApologies ==
    {WaMsgNoAccess, WaMsgNoDownload, WaMsgNoProcess, WaMsgTrouble, WaMsgNothing,
     WaMsgUnexpected, WaMsgRephrase, WaMsgNoResponse, WaMsgSendFailed}

\* views.py:227 and every `return HttpResponse(str(twiml_response), ...)`: the
\* acknowledgment is an empty MessagingResponse
TwimlAck == [status |-> 200, content_type |-> "text/xml", body |-> <<"<Response />">>]

\* a media test that takes the url of any attachment, whatever its type
audio_url_of_any_media(media_type, media_url) ==
    IF Truthy(media_type) THEN media_url ELSE None

\* views.py:218: the media url counts when the content type starts with "audio"
audio_url_of(media_type, media_url) ==
    IF Truthy(media_type) /\ media_type[1] = "audio" THEN media_url ELSE None

\* a body test that only asks for the field to be there
HasBody_not_none(body_text) == body_text # None

\* views.py:284: `elif body_text`
HasBody(body_text) == Truthy(body_text)

WaLocals(ai_response, lang, audio_reply_url) ==
    [ai_response |-> ai_response, lang |-> lang, audio_reply_url |-> audio_reply_url]

\* an apology path that also records the exchange in the query history
WaStop_logging(req, ev, msg, c) ==
    \E s \in HandlerSend :
        Return("whatsapp", req, ev, TwimlAck, WaLocals(None, en, None),
               Append(c, "send_whatsapp_message"),
               <<send_whatsapp_message(req.From, msg, s)>>, {},
               Append(history, [user |-> req.From, query |-> req.Body,
                                response |-> msg, category |-> <<"general">>,
                                language |-> en]))

\* send one apology or prompt and acknowledge (views.py:238-239 and alike)
WaStop(req, ev, msg, c) ==
    \E s \in HandlerSend :
        Return("whatsapp", req, ev, TwimlAck, WaLocals(None, en, None),
               Append(c, "send_whatsapp_message"),
               <<send_whatsapp_message(req.From, msg, s)>>, {}, history)

\* an exception no try block of the view covers reaches the framework
WaRaise(req, ev, c) ==
    Return("whatsapp", req, ev, ServerError, WaLocals(None, en, None), c, <<>>, {},
           history)

\* a reply policy that sends the text twice when there is no audio
WaReplyMessages_text_twice(to_number, ai_response, audio_reply_url, s1, s2) ==
    IF Truthy(audio_reply_url)
    THEN <<send_whatsapp_audio(to_number, audio_reply_url, ai_response, s1),
           send_whatsapp_message(to_number, ai_response, s2)>>
    ELSE <<send_whatsapp_message(to_number, ai_response, s1),
           send_whatsapp_message(to_number, ai_response, s2)>>

\* a reply policy that never sends the audio message
WaReplyMessages_text_only(to_number, ai_response, audio_reply_url, s1, s2) ==
    <<send_whatsapp_message(to_number, ai_response, s1)>>

\* views.py:302-321: audio with the reply as caption and then the reply as
\* text when synthesis gave a url, the reply as text alone when it did not
WaReplyMessages(to_number, ai_response, audio_reply_url, s1, s2) ==
    IF Truthy(audio_reply_url)
    THEN <<send_whatsapp_audio(to_number, audio_reply_url, ai_response, s1),
           send_whatsapp_message(to_number, ai_response, s2)>>
    ELSE <<send_whatsapp_message(to_number, ai_response, s1)>>

SendCalls(messages) ==
    [i \in 1..Len(messages) |->
        IF messages[i].kind = "audio" THEN "send_whatsapp_audio"
        ELSE "send_whatsapp_message"]

\* views.py:297-332: the delivery both paths converge on
WaDeliver(req, ev0, ai_response, lang, c) ==
    IF Truthy(ai_response)
    THEN \E t \in HandlerTts :
           LET tts == safe_tts(ai_response, lang, "wa", t)
               audio_reply_url == tts.val
               ev == [ev0 EXCEPT !.tts = t]
               c1 == Append(c, "safe_tts") \o tts.calls
           IN  IF tts.raised
               THEN \E s \in HandlerSend :
                      Return("whatsapp", req, ev, TwimlAck,
                             WaLocals(ai_response, lang, None),
                             Append(c1, "send_whatsapp_message"),
                             <<send_whatsapp_message(req.From, WaMsgSendFailed, s)>>,
                             tts.files, history)
               ELSE \E s1 \in HandlerSend,
                       s2 \in (IF Truthy(audio_reply_url) THEN HandlerSend
                               ELSE {"error"}) :
                      LET messages == WaReplyMessages(req.From, ai_response,
                                                      audio_reply_url, s1, s2)
                      IN  Return("whatsapp", req, ev, TwimlAck,
                                 WaLocals(ai_response, lang, audio_reply_url),
                                 c1 \o SendCalls(messages), messages,
                                 tts.files, history)
    ELSE \E s \in HandlerSend :
           Return("whatsapp", req, ev0, TwimlAck, WaLocals(ai_response, lang, None),
                  Append(c, "send_whatsapp_message"),
                  <<send_whatsapp_message(req.From, WaMsgNoResponse, s)>>,
                  {}, history)

\* views.py:254-277: the combined call on the repaired audio, the retry with
\* the original bytes when that call raises, the empty-reply check
WaConverseAudio(req, ev0, audio_data, processed_audio_data, c) ==
    \E e \in HandlerConv :
      LET first == safe_gemini_conversational_audio_or_text(
                       processed_audio_data, "wav", None, e)
          ev == [ev0 EXCEPT !.conv = e]
          c1 == Append(c, "safe_gemini") \o first.calls
      IN  IF first.raised
          THEN \E e2 \in HandlerConv :
                 LET second == safe_gemini_conversational_audio_or_text(
                                   audio_data, "ogg", None, e2)
                     c2 == Append(c1, "safe_gemini") \o second.calls
                 IN  IF second.raised
                     THEN WaStop(req, ev, WaMsgTrouble, c2)
                     ELSE IF ~Truthy(second.val[1])
                     THEN WaStop(req, ev, WaMsgNothing, c2)
                     ELSE WaDeliver(req, ev, second.val[1], second.val[2], c2)
          ELSE IF ~Truthy(first.val[1])
          THEN WaStop(req, ev, WaMsgNothing, c1)
          ELSE WaDeliver(req, ev, first.val[1], first.val[2], c1)

\* views.py:229-282
WaAudioPath(req, audio_url) ==
    \E d \in DownloadOutcome :
      LET dl == download_twilio_media(audio_url, d)
          audio_data == dl.val
          ev1 == [NoEnv EXCEPT !.download = d]
          c1 == Append(<<>>, "download_twilio_media") \o dl.calls
      IN  IF dl.raised
          THEN WaStop(req, ev1, WaMsgNoDownload, c1)
          ELSE IF ~Truthy(audio_data)
          THEN WaStop(req, ev1, WaMsgNoAccess, c1)
          ELSE \E p \in HandlerProcess :
                 LET pr == process_whatsapp_audio(audio_data, "ogg", p)
                     ev2 == [ev1 EXCEPT !.process = p]
                     c2 == Append(c1, "process_whatsapp_audio") \o pr.calls
                 IN  IF pr.raised
                     THEN WaStop(req, ev2, WaMsgUnexpected, c2)
                     ELSE IF ~Truthy(pr.val)
                     THEN WaStop(req, ev2, WaMsgNoProcess, c2)
                     ELSE WaConverseAudio(req, ev2, audio_data, pr.val, c2)

\* views.py:284-290; the call is outside every try block
WaTextPath(req, body_text) ==
    \E e \in HandlerConv :
      LET r  == safe_gemini_conversational_audio_or_text(None, None, body_text, e)
          ev == [NoEnv EXCEPT !.conv = e]
          c1 == Append(<<>>, "safe_gemini") \o r.calls
      IN  IF r.raised
          THEN WaRaise(req, ev, c1)
          ELSE IF ~Truthy(r.val[1])
          THEN WaStop(req, ev, WaMsgRephrase, c1)
          ELSE WaDeliver(req, ev, r.val[1], r.val[2], c1)

\* views.py:216-332
WhatsAppWebhookView_post ==
    /\ phase = "idle"
    /\ \E media_type \in {None, <<"audio", "/ogg">>, <<"image", "/jpeg">>},
          media_url \in {None, MediaUrl},
          body_text \in {None, <<>>, SampleText} :
         LET req == [MediaContentType0 |-> media_type, MediaUrl0 |-> media_url,
                     Body |-> body_text, From |-> user_phone]
             audio_url == audio_url_of(media_type, media_url)
         IN  IF Truthy(audio_url) THEN WaAudioPath(req, audio_url)
             ELSE IF HasBody(body_text) THEN WaTextPath(req, body_text)
             ELSE WaStop(req, NoEnv, WaMsgPrompt, <<>>)

----------------------------------------------------------------------------
(* core/views.py: IVRHookView.post *)

IvrSayWelcome  == <<"Welcome to VoiceBridge. Please speak after the beep.">>
IvrSayNotHeard == <<"Sorry, we couldn't hear you. Please try again.">>
IvrSayTrouble  == <<"Sorry, I'm having trouble responding right now.">>
IvrSayWrong    == <<"Sorry, something went wrong. Please try again later.">>

IvrApologies == {IvrSayNotHeard, IvrSayTrouble, IvrSayWrong}

\* a voice-response document: what it says, whether it records, what it plays
Twiml(say, record, play) ==
    [status |-> 200, content_type |-> "text/xml",
     say |-> say, record |-> record, play |-> play]

IvrLocals(ai_response, lang, audio_url) ==
    [ai_response |-> ai_response, lang |-> lang, audio_url |-> audio_url]

\* requests.get(recording_url).content: bytes, no bytes, or an exception
FetchOutcome == {"bytes", "empty", "exception"}

WavBytes == <<"wav-bytes">>

\* a recording test that only asks for the field to be there
HasRecording_not_none(recording_url) == recording_url # None

\* views.py:174: `if not recording_url`
HasRecording(recording_url) == Truthy(recording_url)

\* an except clause that lets the exception through to the framework
IvrExcept_reraise(req, ev, loc, c, f) ==
    Return("ivr", req, ev, ServerError, loc, c, <<>>, f, history)

\* views.py:205-211: whatever was raised inside the turn, say sorry
IvrExcept(req, ev, loc, c, f) ==
    Return("ivr", req, ev, Twiml(IvrSayWrong, FALSE, None), loc, c, <<>>, f, history)

\* a synthesis step that falls back to saying the reply text
IvrSynthesize_say_reply(req, ev0, ai_response, lang, c) ==
    \E t \in HandlerTts :
      LET tts == safe_tts(ai_response, lang, "ivr", t)
          audio_url == tts.val
          ev == [ev0 EXCEPT !.tts = t]
          c1 == Append(c, "safe_tts") \o tts.calls
      IN  IF ~Truthy(audio_url)
          THEN Return("ivr", req, ev, Twiml(ai_response, FALSE, None),
                      IvrLocals(ai_response, lang, audio_url), c1, <<>>,
                      tts.files, history)
          ELSE Return("ivr", req, ev, Twiml(None, FALSE, audio_url),
                      IvrLocals(ai_response, lang, audio_url), c1, <<>>,
                      tts.files, history)

\* views.py:193-203
IvrSynthesize(req, ev0, ai_response, lang, c) ==
    \E t \in HandlerTts :
      LET tts == safe_tts(ai_response, lang, "ivr", t)
          audio_url == tts.val
          ev == [ev0 EXCEPT !.tts = t]
          c1 == Append(c, "safe_tts") \o tts.calls
      IN  IF tts.raised
          THEN IvrExcept(req, ev, IvrLocals(ai_response, lang, None), c1, tts.files)
          ELSE IF ~Truthy(audio_url)
          THEN Return("ivr", req, ev, Twiml(IvrSayTrouble, FALSE, None),
                      IvrLocals(ai_response, lang, audio_url), c1, <<>>,
                      tts.files, history)
          ELSE Return("ivr", req, ev, Twiml(None, FALSE, audio_url),
                      IvrLocals(ai_response, lang, audio_url), c1, <<>>,
                      tts.files, history)

\* views.py:170-211
IVRHookView_post ==
    /\ phase = "idle"
    /\ \E recording_url \in {None, <<>>, RecordingUrl} :
         LET req == [RecordingUrl |-> recording_url]
         IN  IF ~HasRecording(recording_url)
             THEN Return("ivr", req, NoEnv, Twiml(IvrSayWelcome, TRUE, None),
                         IvrLocals(None, en, None), <<>>, <<>>, {}, history)
             ELSE \E fetch \in FetchOutcome :
                    IF fetch = "exception"
                    THEN IvrExcept(req, [NoEnv EXCEPT !.fetch = fetch],
                                   IvrLocals(None, en, None), <<"requests.get">>, {})
                    ELSE \E e \in HandlerConv :
                      LET audio_data == IF fetch = "bytes" THEN WavBytes ELSE <<>>
                          r  == safe_gemini_conversational_audio_or_text(
                                    audio_data, "wav", None, e)
                          ai_response == r.val[1]
                          lang == r.val[2]
                          ev == [NoEnv EXCEPT !.fetch = fetch, !.conv = e]
                          c1 == <<"requests.get", "safe_gemini">> \o r.calls
                      IN  IF r.raised
                          THEN IvrExcept(req, ev, IvrLocals(None, en, None), c1, {})
                          ELSE IF ~Truthy(ai_response)
                          THEN Return("ivr", req, ev,
                                      Twiml(IvrSayNotHeard, FALSE, None),
                                      IvrLocals(ai_response, lang, None), c1, <<>>,
                                      {}, history)
                          ELSE IvrSynthesize(req, ev, ai_response, lang, c1)

----------------------------------------------------------------------------
(* core/views.py: the REST views *)

Query == <<"What is malaria?">>

\* what the generation backend answers a fixed-language request with
RestTexts == {<<>>, <<"h", "h">>}

User == "u1"

\* models.py:15-21, without the timestamp the store sets
Row(user, query, resp, category, language) ==
    [user |-> user, query |-> query, response |-> resp, category |-> category,
     language |-> language]

OldRow == Row("u0", <<"earlier question">>, <<"earlier answer">>, <<"general">>, en)

JsonError(code, msg) == [status |-> code, error |-> msg]

\* a lookup that never sees the caller's value
GetOr_default(v, default) == default

\* request.data.get(key, default)
GetOr(v, default) == IF v = None THEN default ELSE v

HandlerGen ==
    IF GEMINI_API_KEY /\ genai
    THEN {g \in GenOutcome(RestTexts) : g.raises => g.text = <<>>}
    ELSE {[raises |-> FALSE, text |-> <<>>]}

RestLocals(ai_response, audio_url) ==
    [ai_response |-> ai_response, audio_url |-> audio_url]

\* views.py:116-139
AssistantQueryView_post ==
    /\ phase = "idle"
    /\ \E text \in {None, <<>>, Query},
          language_field \in {None, <<"yo">>},
          category_field \in {None, <<"health">>} :
         LET req == [user |-> User, text |-> text, language |-> language_field,
                     category |-> category_field]
             query    == text
             language == GetOr(language_field, en)
             category == GetOr(category_field, <<"general">>)
         IN  IF ~Truthy(query)
             THEN Return("assistant", req, NoEnv,
                         JsonError(400, <<"Missing query text">>),
                         RestLocals(None, None), <<>>, <<>>, {}, history)
             ELSE \E g \in HandlerGen, t \in HandlerTts :
                    LET ask == ask_gemini(query, language, g)
                        ai_response == ask.val
                        tts == safe_tts(ai_response, language, "assistant", t)
                        audio_url == tts.val
                        ev == [NoEnv EXCEPT !.gen = g, !.tts = t]
                        c1 == (<<"ask_gemini">> \o ask.calls)
                                  \o (<<"safe_tts">> \o tts.calls)
                    IN  IF ask.raised \/ tts.raised
                        THEN Return("assistant", req, ev, ServerError,
                                    RestLocals(ai_response, None), c1, <<>>,
                                    tts.files, history)
                        ELSE Return("assistant", req, ev,
                                    [status |-> 200, query |-> query,
                                     response |-> ai_response,
                                     audio_url |-> audio_url],
                                    RestLocals(ai_response, audio_url),
                                    Append(c1, "QueryHistory.create"),
                                    <<>>, tts.files,
                                    Append(history,
                                           Row(User, query, ai_response, category,
                                               language)))

HandlerStt ==
    {e \in SttEnv(RestTexts) :
        /\ ~e.decoded => e.transcribe_ok /\ e.transcript = <<>> /\ e.translate_ok
        /\ ~e.transcribe_ok => e.transcript = <<>> /\ e.translate_ok}

HandlerUpload == IF cloudinary_creds THEN UploadOutcome \ {"open_error"} ELSE {"ok"}

\* views.py:155-165
VoiceReply(req, ev0, transcription, language, c) ==
    \E g \in HandlerGen, t \in HandlerTts, u \in HandlerUpload :
      LET ask == ask_gemini(transcription, language, g)
          ai_response == ask.val
          tts == safe_tts(ai_response, language, "voice", t)
          up  == upload_to_cloudinary("input", FALSE, u)
          ev  == [ev0 EXCEPT !.gen = g, !.tts = t, !.upload = u]
          c1  == c \o (<<"ask_gemini">> \o ask.calls)
                   \o (<<"safe_tts">> \o tts.calls)
                   \o (<<"upload_to_cloudinary">> \o up.calls)
      IN  IF ask.raised \/ tts.raised \/ up.raised
          THEN Return("voice", req, ev, ServerError, RestLocals(ai_response, None),
                      c1, <<>>, tts.files, history)
          ELSE Return("voice", req, ev,
                      [status |-> 200, query |-> transcription,
                       response |-> ai_response, audio_url |-> tts.val,
                       uploaded_input_audio_url |-> up.val],
                      RestLocals(ai_response, tts.val), c1, <<>>, tts.files,
                      history)

\* views.py:142-165
VoiceUploadView_post ==
    /\ phase = "idle"
    /\ \E file \in {None, WebmBytes},
          language_field \in {None, <<"yo">>} :
         LET req == [user |-> User, file |-> file, language |-> language_field]
             language == GetOr(language_field, en)
         IN  IF ~Truthy(file)
             THEN Return("voice", req, NoEnv, JsonError(400, <<"No audio provided">>),
                         RestLocals(None, None), <<>>, <<>>, {}, history)
             ELSE \E e \in HandlerStt :
                    LET stt == safe_stt(file, language, e)
                        transcription == stt.val
                        ev == [NoEnv EXCEPT !.stt = e]
                        c1 == <<"safe_stt">> \o stt.calls
                    IN  IF stt.raised
                        THEN Return("voice", req, ev, ServerError,
                                    RestLocals(None, None), c1, <<>>, {}, history)
                        ELSE IF ~Truthy(transcription)
                        THEN Return("voice", req, ev,
                                    JsonError(500, <<"STT failed">>),
                                    RestLocals(None, None), c1, <<>>, {}, history)
                        ELSE VoiceReply(req, ev, transcription, language, c1)

----------------------------------------------------------------------------
(* The worker: one request, on any channel *)

Init ==
    /\ InitConfig
    /\ InitWorker
    /\ history \in {<<>>, <<OldRow>>}

Next ==
    \/ AssistantQueryView_post
    \/ VoiceUploadView_post
    \/ IVRHookView_post
    \/ WhatsAppWebhookView_post

Spec == Init /\ [][Next]_vars

----------------------------------------------------------------------------
(* Properties *)

Done(v) == phase = "done" /\ view = v

\* the generation backend was reached by the combined call and answered
Answered ==
    /\ env.conv # Unreached
    /\ GEMINI_API_KEY /\ genai
    /\ ~env.conv.gen.raises
    /\ \/ Truthy(request.text_input)
       \/ Truthy(request.audio_bytes) /\ env.conv.decoded

Markers(out) == {k \in 1..Len(out) : out[k] = lang_code_prefix}

LastMarker(out) == CHOOSE k \in Markers(out) : \A j \in Markers(out) : j <= k

Before(out, k) == SubSeq(out, 1, k - 1)

After(out, k) == SubSeq(out, k + 1, Len(out))

CodeNames == {"en", "yo", "ig", "ha"}

\* the ways a code is written, in any case
Spellings(code) == IF code = "yo" THEN {"yo", "YO"} ELSE {code}

\* s is the code, with nothing but blanks around it
SpellsCode(s, code) ==
    \E i \in 1..Len(s) :
        /\ s[i] \in Spellings(code)
        /\ \A j \in (1..Len(s)) \ {i} : s[j] = " "

HasText(s) == \E j \in 1..Len(s) : s[j] # " "

\* t is s without its leading and trailing blanks
IsTrimOf(t, s) ==
    \E i \in 1..(Len(s) + 1), j \in 0..Len(s) :
        /\ t = SubSeq(s, i, j)
        /\ \A m \in 1..(i - 1) : s[m] = " "
        /\ \A m \in (j + 1)..Len(s) : s[m] = " "
        /\ t # <<>> => t[1] # " " /\ t[Len(t)] # " "

\* C1: when the backend output holds the marker followed by one of en, yo, ig,
\* ha (any case, blanks around it) and some reply text before it, the combined
\* call returns exactly that code; when the text after the last marker is not
\* one of the four, or there is no marker, it returns "en"
C1_DetectedLanguage ==
    (Done("converse") /\ Answered) =>
        LET out  == env.conv.gen.text
            lang == response.val[2]
        IN  /\ \A code \in CodeNames : \A k \in Markers(out) :
                  (SpellsCode(After(out, k), code) /\ HasText(Before(out, k)))
                      => lang = <<code>>
            /\ Markers(out) = {} => lang = en
            /\ (/\ Markers(out) # {}
                /\ \A code \in CodeNames :
                      ~SpellsCode(After(out, LastMarker(out)), code))
                   => lang = en

C1_Witness ==
    /\ Done("converse")
    /\ Answered
    /\ env.conv.gen.text = <<"h", lang_code_prefix, " ", "YO", " ">>
    /\ response.val = << <<"h">>, <<"yo">> >>

\* C2: when the backend output holds the marker twice or more, the reply is
\* everything before the last occurrence (trimmed, earlier occurrences kept
\* inside it) and the code is read from what follows the last occurrence
C2_LastOccurrence ==
    (Done("converse") /\ Answered /\ Cardinality(Markers(env.conv.gen.text)) >= 2) =>
        LET out == env.conv.gen.text
            k   == LastMarker(out)
        IN  /\ IsTrimOf(response.val[1], Before(out, k))
            /\ Contains(response.val[1], lang_code_prefix)
            /\ \A code \in CodeNames :
                  SpellsCode(After(out, k), code) => response.val[2] = <<code>>
            /\ (\A code \in CodeNames : ~SpellsCode(After(out, k), code))
                  => response.val[2] = en

C2_Witness ==
    /\ Done("converse")
    /\ Answered
    /\ env.conv.gen.text = <<"h", lang_code_prefix, "h", lang_code_prefix, "ha">>
    /\ response.val = << <<"h", lang_code_prefix, "h">>, <<"ha">> >>

\* every step of synthesis succeeded: backend call, waveform file, mp3
\* transcode, storage credentials, upload answered 200 with a url
TtsAllOk(t) ==
    /\ t.generate_ok
    /\ t.write_ok
    /\ t.export_ok
    /\ cloudinary_creds
    /\ t.upload = "ok"

\* C3: no successful reply goes out with both its text and its audio url
\* absent: a REST 200 carries a non-empty response or an audio url, an IVR
\* document says or plays something, a WhatsApp message has a body or media
C3_NeverBothAbsent ==
    /\ ((Done("assistant") \/ Done("voice")) /\ response.status = 200)
          => (Truthy(response.response) \/ Truthy(response.audio_url))
    /\ Done("ivr") => (Truthy(response.say) \/ Truthy(response.play))
    /\ Done("whatsapp") =>
          \A i \in 1..Len(outbox) :
              Truthy(outbox[i].body) \/ Truthy(outbox[i].media_url)

\* C4: safe_tts never raises; whenever any step fails it returns None, so a
\* url comes back only when every step succeeded
C4_SynthesizeNeverRaises ==
    Done("tts") =>
        /\ ~response.raised
        /\ ~TtsAllOk(env.tts) => response.val = None
        /\ response.val # None => TtsAllOk(env.tts)

C4_Witness ==
    /\ Done("tts")
    /\ env.tts.generate_ok /\ env.tts.write_ok /\ env.tts.export_ok
    /\ cloudinary_creds
    /\ env.tts.upload = "non200"
    /\ response.val = None
    /\ ~response.raised

\* synthesis was attempted and came back with no url
SynthesisFailed == env.tts # Unreached /\ ~TtsAllOk(env.tts)

\* C5: when a reply text was produced and synthesis returns None, the REST
\* request still answers 200 with the reply text and audio_url null, and the
\* WhatsApp request sends exactly one message, a text carrying the full reply
C5_SynthesisFailureNotFatal ==
    /\ ((Done("assistant") \/ Done("voice"))
           /\ SynthesisFailed /\ Truthy(locals.ai_response))
          => /\ response.status = 200
             /\ response.response = locals.ai_response
             /\ response.audio_url = None
    /\ (Done("whatsapp") /\ SynthesisFailed)
          => /\ response = TwimlAck
             /\ Truthy(locals.ai_response)
             /\ Len(outbox) = 1
             /\ outbox[1].kind = "text"
             /\ outbox[1].body = locals.ai_response
             /\ outbox[1].media_url = None

C5_Witness ==
    /\ Done("whatsapp")
    /\ env.tts # Unreached
    /\ ~env.tts.generate_ok
    /\ Len(outbox) = 1
    /\ outbox[1].body = <<"h", "h">>

\* C6: whatever fails (media download, audio repair, generation backend,
\* synthesis, outbound sends, missing messaging credentials), the WhatsApp
\* webhook returns the empty TwiML acknowledgment
C6_WebhookAcknowledges ==
    Done("whatsapp") => response = TwimlAck

C6_Witness ==
    /\ Done("whatsapp")
    /\ request.Body = SampleText
    /\ env.conv # Unreached
    /\ env.conv.gen.raises
    /\ ~twilio_creds
    /\ response = TwimlAck

\* something went wrong in the IVR turn: the recording fetch raised, the
\* generation backend raised, or synthesis failed
IvrFailure ==
    \/ env.fetch = "exception"
    \/ env.conv # Unreached /\ GEMINI_API_KEY /\ genai /\ env.conv.gen.raises
    \/ SynthesisFailed

\* C7: an IVR turn in which anything raises still answers with a voice-response
\* document that speaks an apology; no raw error reaches the telephony layer
C7_IvrApologyOnException ==
    Done("ivr") =>
        /\ response.status = 200
        /\ response.content_type = "text/xml"
        /\ IvrFailure => /\ response.say \in IvrApologies
                         /\ response.play = None
                         /\ ~response.record

C7_Witness ==
    /\ Done("ivr")
    /\ env.fetch = "exception"
    /\ response = Twiml(IvrSayWrong, FALSE, None)

\* C8: with no RecordingUrl, or an empty one, the IVR view answers with the
\* "please speak" prompt and a record instruction and calls no collaborator
C8_IvrPromptWithoutCalls ==
    (Done("ivr") /\ request.RecordingUrl \in {None, <<>>}) =>
        /\ response = Twiml(IvrSayWelcome, TRUE, None)
        /\ calls = <<>>
        /\ env = NoEnv
        /\ disk = {}

C8_Witness ==
    /\ Done("ivr")
    /\ request.RecordingUrl = <<>>
    /\ response.say = IvrSayWelcome
    /\ response.record

\* the payload carries no media of an audio content type
NoAudioMedia ==
    \/ request.MediaContentType0 = None
    \/ request.MediaContentType0[1] # "audio"
    \/ request.MediaUrl0 = None

\* C9: a WhatsApp payload with no audio media and an empty or missing Body
\* gets exactly one outbound message, the prompt, and no download, repair,
\* ConversationalEngine or TextToSpeech call is made
C9_PromptOnly ==
    (Done("whatsapp") /\ NoAudioMedia /\ request.Body \in {None, <<>>}) =>
        /\ Len(outbox) = 1
        /\ outbox[1].kind = "text"
        /\ outbox[1].body = WaMsgPrompt
        /\ outbox[1].to = request.From
        /\ calls = <<"send_whatsapp_message">>
        /\ env = NoEnv

C9_Witness ==
    /\ Done("whatsapp")
    /\ request.MediaContentType0 = <<"image", "/jpeg">>
    /\ request.Body = <<>>
    /\ Len(outbox) = 1
    /\ outbox[1].body = WaMsgPrompt

InCalls(name) == \E i \in 1..Len(calls) : calls[i] = name

\* C10: a WhatsApp request that produced a reply attempts synthesis, and when
\* synthesis yields a url exactly two messages go out: an audio message with
\* that url and the reply as caption, then a text message with the full reply
C10_AudioThenText ==
    Done("whatsapp") =>
        /\ Truthy(locals.ai_response) => (env.tts # Unreached /\ InCalls("safe_tts"))
        /\ (env.tts # Unreached /\ TtsAllOk(env.tts)) =>
              /\ Truthy(locals.ai_response)
              /\ Len(outbox) = 2
              /\ outbox[1].kind = "audio"
              /\ outbox[1].media_url = secure_url("wa")
              /\ outbox[1].body = locals.ai_response
              /\ outbox[2].kind = "text"
              /\ outbox[2].body = locals.ai_response
              /\ outbox[2].media_url = None
              /\ \A i \in 1..2 : outbox[i].to = request.From

C10_Witness ==
    /\ Done("whatsapp")
    /\ env.download = "ok"
    /\ Len(outbox) = 2
    /\ outbox[1].kind = "audio"
    /\ outbox[1].media_url = secure_url("wa")
    /\ outbox[2].kind = "text"
    /\ outbox[2].body = outbox[1].body

\* how many times `name` was called
Count(name) == Cardinality({i \in 1..Len(calls) : calls[i] = name})

\* the WhatsApp audio path reached the combined call with the repaired audio,
\* and the generation backend raised on that call
FirstConverseRaised ==
    /\ Done("whatsapp")
    /\ env.download = "ok"
    /\ env.process # Unreached
    /\ env.conv # Unreached
    /\ env.conv.decoded
    /\ env.conv.gen.raises

\* C11: when the backend raises on the first combined call of the WhatsApp
\* audio path, exactly one further combined call is made (with the original
\* bytes) before the request gives up: two combined calls in all
C11_RetryOnce ==
    FirstConverseRaised => Count("safe_gemini") = 2

\* every ffmpeg run of process_whatsapp_audio failed
AllRemuxFailed ==
    /\ env.process # Unreached
    /\ env.process.tmp_ok
    /\ \A i \in 1..NumCommands : env.process.runs[i] # "ok"

\* C12: when every remux attempt fails, normalize_audio is invoked on the
\* original bytes and its result is used; the request stops with the
\* "couldn't process your audio format" apology only if that also fails
C12_GenericFallback ==
    (Done("whatsapp") /\ AllRemuxFailed) =>
        /\ InCalls("normalize_audio")
        /\ env.process.decoded =>
              \A i \in 1..Len(outbox) : outbox[i].body # WaMsgNoProcess

\* C13: once a request (or a synthesis on its own) has ended, no temporary
\* file it created is left on disk
C13_NoTempFilesLeft ==
    phase = "done" => disk = {}

\* the transcoder was run on the inbound audio handed to the combined call
\* and could not decode it
TranscodeFailedTotally ==
    /\ env.conv # Unreached
    /\ GEMINI_API_KEY /\ genai
    /\ InCalls("normalize_audio")
    /\ ~env.conv.decoded

\* C14: when every transcoding strategy fails for inbound audio on the IVR or
\* WhatsApp channel, the original bytes still go to the generation backend:
\* the request does not end without a backend call
C14_RawResubmission ==
    ((Done("ivr") \/ Done("whatsapp")) /\ TranscodeFailedTotally)
        => InCalls("gemini.generate")

\* transcription of the uploaded audio failed: the audio could not be
\* transcoded, the transcription call raised, or the translation call raised
SttFailed ==
    /\ env.stt # Unreached
    /\ \/ ~env.stt.decoded
       \/ ~env.stt.transcribe_ok
       \/ request.language \notin {None, en} /\ ~env.stt.translate_ok

\* no generation, synthesis or storage-upload call was made
NoCallsPastStt ==
    \A name \in {"ask_gemini", "gemini.generate", "safe_tts", "spitch.generate",
                 "export_mp3", "upload_to_cloudinary", "cloudinary.upload",
                 "QueryHistory.create"} : ~InCalls(name)

\* C15: a text request without text and an audio request without a file get
\* 400 before any call is made; an audio request whose transcode or
\* transcription fails gets 500 after one safe_stt call (at most one
\* transcription attempt inside it) and nothing is called after it
C15_RestErrors ==
    /\ (Done("assistant") /\ ~Truthy(request.text))
          => (response.status = 400 /\ calls = <<>>)
    /\ (Done("voice") /\ ~Truthy(request.file))
          => (response.status = 400 /\ calls = <<>>)
    /\ (Done("voice") /\ SttFailed)
          => /\ response.status = 500
             /\ Count("safe_stt") = 1
             /\ Count("spitch.transcribe") <= 1
             /\ NoCallsPastStt

C15_Witness ==
    /\ Done("voice")
    /\ env.stt # Unreached
    /\ env.stt.decoded /\ env.stt.transcribe_ok /\ ~env.stt.translate_ok
    /\ env.stt.transcript # <<>>
    /\ request.language = <<"yo">>
    /\ response = JsonError(500, <<"STT failed">>)
    /\ calls = <<"safe_stt", "normalize_audio", "spitch.transcribe", "spitch.translate">>

\* C16: a REST text request answered 200 appends exactly one row to the query
\* history: the requesting user, the request's text, the response text
\* returned, and the category and language the caller supplied ("general" and
\* "en" when not supplied); one answered 400 leaves the history as it was
C16_TextRequestLogged ==
    [][(phase' = "done" /\ view' = "assistant") =>
          /\ response'.status = 200 =>
                history' = Append(history,
                    [user     |-> request'.user,
                     query    |-> request'.text,
                     response |-> response'.response,
                     category |-> IF request'.category = None
                                  THEN <<"general">> ELSE request'.category,
                     language |-> IF request'.language = None
                                  THEN <<"en">> ELSE request'.language])
          /\ response'.status = 400 => history' = history]_vars

C16_Witness ==
    /\ Done("assistant")
    /\ response.status = 200
    /\ request.category = <<"health">>
    /\ request.language = <<"yo">>
    /\ Truthy(response.response)
    /\ history = <<OldRow,
                   [user |-> "u1", query |-> Query, response |-> response.response,
                    category |-> <<"health">>, language |-> <<"yo">>]>>

\* C17: a REST audio request answered 200 has stored a row in the query
\* history for the requesting user, with the transcription as its query
C17_AudioRequestLogged ==
    (Done("voice") /\ response.status = 200) =>
        /\ InCalls("QueryHistory.create")
        /\ Len(history) >= 1
        /\ history[Len(history)].user = request.user
        /\ history[Len(history)].query = response.query

IsView == view \in {"assistant", "voice", "ivr", "whatsapp"}

\* C18: with the generation key, the storage credentials or the messaging
\* credentials absent, the operation that needs them gives its apology or
\* None and calls nothing, and every view still answers in its own format:
\* JSON from the REST views, a voice document from the IVR hook, the empty
\* acknowledgement from the WhatsApp webhook
C18_MissingCredentialsDegrade ==
    (phase = "done" /\ IsView) =>
        /\ (~GEMINI_API_KEY \/ ~cloudinary_creds \/ ~twilio_creds) =>
              /\ response # ServerError
              /\ view \in {"assistant", "voice"} => response.status \in {200, 400, 500}
              /\ view = "ivr" => response.content_type = "text/xml"
              /\ view = "whatsapp" => response = TwimlAck
        /\ ~GEMINI_API_KEY =>
              /\ ~InCalls("gemini.generate")
              /\ env.gen # Unreached => locals.ai_response = NotConfigured
              /\ env.conv # Unreached => locals.ai_response = NotAvailable
        /\ ~cloudinary_creds =>
              /\ ~InCalls("cloudinary.upload")
              /\ view \in {"assistant", "voice", "ivr"} => locals.audio_url = None
              /\ view = "whatsapp" => locals.audio_reply_url = None
              /\ (view = "voice" /\ response.status = 200)
                    => response.uploaded_input_audio_url = None
        /\ ~twilio_creds =>
              \A i \in 1..Len(outbox) : outbox[i].delivery = "no_credentials"

C18_Witness ==
    /\ Done("voice")
    /\ GEMINI_API_KEY /\ genai /\ ~cloudinary_creds
    /\ response.status = 200
    /\ Truthy(response.response)
    /\ response.audio_url = None
    /\ response.uploaded_input_audio_url = None
    /\ InCalls("upload_to_cloudinary")
    /\ InCalls("export_mp3")

\* C19: the combined call never returns an empty reply as a success: when
\* what precedes the last marker (the whole output when there is no marker)
\* holds nothing but blanks, the call returns None, "en"
C19_NoEmptySuccess ==
    Done("converse") =>
        /\ response.val[1] # <<>>
        /\ Answered =>
              LET out   == env.conv.gen.text
                  reply == IF Markers(out) = {} THEN out
                           ELSE Before(out, LastMarker(out))
              IN  ~HasText(reply) => response.val = <<None, en>>

C19_Witness ==
    /\ Done("converse")
    /\ Answered
    /\ env.conv.gen.text = <<" ", lang_code_prefix, "yo">>
    /\ response.val = <<None, en>>

\* C20: no step of the IVR hook or of the WhatsApp webhook changes the query
\* history
C20_OnlyRestLogs ==
    [][(phase' = "done" /\ view' \in {"ivr", "whatsapp"})
          => history' = history]_vars

C20_Witness ==
    /\ Done("whatsapp")
    /\ history = <<OldRow>>
    /\ Len(outbox) = 1
    /\ outbox[1].body = WaMsgRephrase
    /\ ~InCalls("QueryHistory.create")

\* the position of the first call of `name`, 0 when it was never called
FirstCall(name) ==
    IF InCalls(name)
    THEN CHOOSE i \in 1..Len(calls) :
            calls[i] = name /\ \A j \in 1..(i - 1) : calls[j] # name
    ELSE 0

\* C21: the IVR hook plays audio only after the recording was fetched, the
\* combined call gave a non-empty reply and synthesis gave a url, in that
\* order, and it plays that url; when synthesis gives no url the turn ends
\* with the spoken apology and the reply text is not said
C21_IvrPlayOrdering ==
    Done("ivr") =>
        /\ Truthy(response.play) =>
              /\ 0 < FirstCall("requests.get")
              /\ FirstCall("requests.get") < FirstCall("safe_gemini")
              /\ FirstCall("safe_gemini") < FirstCall("safe_tts")
              /\ Count("safe_tts") = 1
              /\ env.fetch \in {"bytes", "empty"}
              /\ Truthy(locals.ai_response)
              /\ env.tts # Unreached /\ TtsAllOk(env.tts)
              /\ response.play = secure_url("ivr")
              /\ response.play = locals.audio_url
              /\ response.say = None
        /\ (env.tts # Unreached /\ ~TtsAllOk(env.tts)) =>
              /\ response.play = None
              /\ response.say = IvrSayTrouble
              /\ response.say # locals.ai_response
              /\ ~response.record

C21_Witness ==
    /\ Done("ivr")
    /\ env.tts # Unreached
    /\ env.tts.generate_ok /\ env.tts.write_ok /\ ~env.tts.export_ok
    /\ Truthy(locals.ai_response)
    /\ response.say = IvrSayTrouble
    /\ response.play = None

\* the combined call of an IVR turn could not get a reply from the generation
\* backend: not configured, the backend raised, the audio could not be
\* normalised, or the reply parsed from the output was empty
IvrEngineFailed ==
    /\ Done("ivr")
    /\ env.conv # Unreached
    /\ \/ ~GEMINI_API_KEY \/ ~genai
       \/ env.conv.gen.raises
       \/ ~env.conv.decoded
       \/ parse_gemini_response(env.conv.gen.text)[1] = None

\* C22: when the combined call cannot get a reply from the generation
\* backend, the IVR hook answers with a spoken apology of its own and
\* safe_tts is not called in that turn
C22_EngineFailureEndsTurn ==
    IvrEngineFailed =>
        /\ response.say \in IvrApologies
        /\ response.play = None
        /\ ~InCalls("safe_tts")

\* the generation backend is configured and the combined call of an IVR turn
\* got no reply from it
IvrNoReply ==
    /\ Done("ivr")
    /\ env.conv # Unreached
    /\ GEMINI_API_KEY /\ genai
    /\ \/ env.fetch = "empty"
       \/ env.conv.gen.raises
       \/ ~env.conv.decoded
       \/ parse_gemini_response(env.conv.gen.text)[1] = None

\* C22 as amended: when the backend raises, the audio cannot be normalised or
\* the reply is empty, the IVR hook says "Sorry, we couldn't hear you" and
\* safe_tts is not called; when the backend is not configured the combined
\* call returns its fixed sentence as the reply and the turn goes on to
\* synthesis
C22_NoReplyEndsTurn ==
    /\ IvrNoReply =>
          /\ response.say = IvrSayNotHeard
          /\ response.play = None
          /\ locals.ai_response = None
          /\ ~InCalls("safe_tts")
    /\ (Done("ivr") /\ env.conv # Unreached /\ ~(GEMINI_API_KEY /\ genai)) =>
          /\ locals.ai_response = NotAvailable
          /\ ~InCalls("gemini.generate")
          /\ InCalls("safe_tts")

C22_Witness ==
    /\ Done("ivr")
    /\ GEMINI_API_KEY /\ genai
    /\ env.fetch = "bytes"
    /\ env.conv # Unreached
    /\ env.conv.decoded /\ env.conv.gen.raises
    /\ response.say = IvrSayNotHeard
    /\ calls = <<"requests.get", "safe_gemini", "normalize_audio", "gemini.generate">>

\* which path a WhatsApp request took, read from what it did
TookAudioPath == Len(calls) >= 1 /\ calls[1] = "download_twilio_media"

TookTextPath == Len(calls) >= 1 /\ calls[1] = "safe_gemini"

TookPromptPath ==
    /\ calls = <<"send_whatsapp_message">>
    /\ Len(outbox) = 1
    /\ outbox[1].body = WaMsgPrompt

ExactlyOnePath ==
    Cardinality({b \in {<<1, TookAudioPath>>, <<2, TookTextPath>>,
                        <<3, TookPromptPath>>} : b[2]}) = 1

AudioContentType ==
    Truthy(request.MediaContentType0) /\ request.MediaContentType0[1] = "audio"

\* C23: a payload whose media content type starts with "audio" takes the
\* audio path even with a Body; a payload without audio media and with a
\* non-empty Body takes the text path and downloads nothing; every other
\* payload takes the prompt path; exactly one path is taken
C23_DispatchByContentType ==
    Done("whatsapp") =>
        /\ ExactlyOnePath
        /\ AudioContentType => TookAudioPath
        /\ (~AudioContentType /\ Truthy(request.Body)) =>
              (TookTextPath /\ ~InCalls("download_twilio_media"))
        /\ (~AudioContentType /\ ~Truthy(request.Body)) => TookPromptPath

\* the payload carries audio media: an audio content type and a media url
AudioMedia == AudioContentType /\ Truthy(request.MediaUrl0)

\* C23 as amended: the audio path is taken when the content type starts with
\* "audio" and MediaUrl0 is non-empty, even with a Body; without such media a
\* non-empty Body takes the text path and downloads nothing; every other
\* payload takes the prompt path; exactly one path is taken
C23_DispatchByAudioUrl ==
    Done("whatsapp") =>
        /\ ExactlyOnePath
        /\ AudioMedia => TookAudioPath
        /\ (~AudioMedia /\ Truthy(request.Body)) =>
              (TookTextPath /\ ~InCalls("download_twilio_media")
                 /\ env.download = "unreached")
        /\ (~AudioMedia /\ ~Truthy(request.Body)) => TookPromptPath

C23_Witness ==
    /\ Done("whatsapp")
    /\ request.MediaContentType0 = <<"image", "/jpeg">>
    /\ request.MediaUrl0 = MediaUrl
    /\ request.Body = SampleText
    /\ TookTextPath
    /\ env.download = "unreached"

StrategyName(k) == <<"ffmpeg1", "ffmpeg2", "ffmpeg3">>[k]

\* C24: process_whatsapp_audio runs strategy k exactly when every strategy
\* before it failed, in the order 1, 2, 3; it returns the output of the
\* first strategy that succeeds and runs none after it
C24_FirstSuccessWins ==
    (Done("repair") /\ env.process.tmp_ok) =>
        LET runs == env.process.runs
        IN  /\ \A k \in 1..NumCommands :
                  InCalls(StrategyName(k)) <=> (\A j \in 1..(k - 1) : runs[j] # "ok")
            /\ \A k \in 1..NumCommands :
                  InCalls(StrategyName(k)) =>
                      (calls[k] = StrategyName(k) /\ Count(StrategyName(k)) = 1)
            /\ \A k \in 1..NumCommands :
                  (runs[k] = "ok" /\ \A j \in 1..(k - 1) : runs[j] # "ok") =>
                      /\ response.val = <<"wav16k", StrategyName(k)>> \o request.audio_bytes
                      /\ Len(calls) = k
                      /\ ~response.raised

C24_Witness ==
    /\ Done("repair")
    /\ env.process.tmp_ok
    /\ env.process.runs = <<"timeout", "ok", "ok">>
    /\ calls = <<"ffmpeg1", "ffmpeg2">>
    /\ response.val = <<"wav16k", "ffmpeg2">> \o OggBytes
    /\ disk = {}

\* the credentialed media fetch of a WhatsApp request failed
DownloadFailed ==
    /\ Done("whatsapp")
    /\ env.download \in {"empty", "http_error", "timeout", "exception"}

\* C25: when the media download fails (HTTP error, timeout, other exception,
\* empty body) exactly one message is sent, a text apology, and the request
\* makes no repair, combined call or synthesis call
C25_DownloadFailureStops ==
    DownloadFailed =>
        /\ Len(outbox) = 1
        /\ outbox[1].kind = "text"
        /\ outbox[1].body \in {WaMsgNoAccess, WaMsgNoDownload}
        /\ outbox[1].to = request.From
        /\ Count("send_whatsapp_message") = 1
        /\ \A name \in {"process_whatsapp_audio", "ffmpeg1", "ffmpeg2", "ffmpeg3",
                        "safe_gemini", "normalize_audio", "gemini.generate",
                        "safe_tts", "spitch.generate", "send_whatsapp_audio"} :
              ~InCalls(name)
        /\ response = TwimlAck

C25_Witness ==
    /\ Done("whatsapp")
    /\ env.download = "http_error"
    /\ request.Body = SampleText
    /\ calls = <<"download_twilio_media", "twilio.get_media", "send_whatsapp_message">>
    /\ outbox[1].body = WaMsgNoAccess

AudioMessageSent == \E i \in 1..Len(outbox) : outbox[i].kind = "audio"

\* C26: a WhatsApp request that arrived as text is answered with text only,
\* no audio message; one that arrived as audio is answered with audio and
\* text
C26_TextInputTextOnly ==
    Done("whatsapp") =>
        /\ TookTextPath => ~AudioMessageSent
        /\ (TookAudioPath /\ Truthy(locals.ai_response) /\ TtsAllOk(env.tts)) =>
              (AudioMessageSent /\ Len(outbox) = 2)

\* C26 as amended: the reply is sent the same way whatever the input was:
\* a request that produced a reply, from text or from audio, is answered
\* with an audio message and a text message when synthesis gives a url and
\* with a text message alone when it does not
C26_SamePolicyForTextAndAudio ==
    (Done("whatsapp") /\ Truthy(locals.ai_response)) =>
        /\ TookTextPath \/ TookAudioPath
        /\ InCalls("safe_tts")
        /\ TtsAllOk(env.tts) =>
              /\ AudioMessageSent
              /\ Len(outbox) = 2
              /\ outbox[2].kind = "text"
        /\ ~TtsAllOk(env.tts) =>
              /\ ~AudioMessageSent
              /\ Len(outbox) = 1
              /\ outbox[1].kind = "text"

C26_Witness ==
    /\ Done("whatsapp")
    /\ TookTextPath
    /\ request.Body = SampleText
    /\ request.MediaContentType0 = None
    /\ Len(outbox) = 2
    /\ outbox[1].kind = "audio"
    /\ outbox[2].kind = "text"

\* C27: for a language hint other than "en" a successful transcribe call is
\* followed by exactly one translate call and the translation is returned;
\* for "en" no translate call is made and the raw transcript is returned;
\* when normalisation, transcription or translation fails None is returned,
\* never a partial transcript
C27_TranslationRule ==
    Done("stt") =>
        LET e    == env.stt
            heard == e.decoded /\ e.transcribe_ok
        IN  /\ ~response.raised
            /\ (heard /\ request.language # en) =>
                  /\ Count("spitch.translate") = 1
                  /\ FirstCall("spitch.transcribe") < FirstCall("spitch.translate")
                  /\ e.translate_ok => response.val = <<"en:">> \o e.transcript
                  /\ ~e.translate_ok => response.val = None
            /\ (heard /\ request.language = en) =>
                  /\ ~InCalls("spitch.translate")
                  /\ response.val = e.transcript
            /\ ~heard =>
                  /\ response.val = None
                  /\ ~InCalls("spitch.translate")
            /\ Count("spitch.transcribe") <= 1

C27_Witness ==
    /\ Done("stt")
    /\ request.language = <<"ha">>
    /\ env.stt.decoded /\ env.stt.transcribe_ok /\ env.stt.translate_ok
    /\ env.stt.transcript = <<"h", "h">>
    /\ response.val = <<"en:", "h", "h">>
    /\ calls = <<"normalize_audio", "spitch.transcribe", "spitch.translate">>

\* C29: on every return path of the combined call the language code is one
\* of en, yo, ig, ha, and whenever no reply is returned it is "en", also when
\* the backend output ended in another valid code
C29_LanguageCodeInvariant ==
    Done("converse") =>
        /\ ~response.raised
        /\ response.val[2] \in {<<"en">>, <<"yo">>, <<"ig">>, <<"ha">>}
        /\ response.val[1] = None => response.val[2] = <<"en">>
        /\ ~(GEMINI_API_KEY /\ genai) => response.val[2] = <<"en">>

C29_Witness ==
    /\ Done("converse")
    /\ Answered
    /\ env.conv.gen.text = <<lang_code_prefix, " ", "ig">>
    /\ response.val = <<None, <<"en">>>>

\* C30: every WhatsApp request attempts one or two sends; two only when a
\* reply was produced and synthesis gave a url; every path without a reply
\* (failure or prompt) attempts exactly one, an apology or the prompt; a
\* request that sends its reply sends nothing but the reply
C30_OutboundBounds ==
    Done("whatsapp") =>
        /\ Len(outbox) \in {1, 2}
        /\ Count("send_whatsapp_message") + Count("send_whatsapp_audio") = Len(outbox)
        /\ Len(outbox) = 2 =>
              /\ Truthy(locals.ai_response)
              /\ env.tts # Unreached /\ TtsAllOk(env.tts)
              /\ Truthy(locals.audio_reply_url)
        /\ ~Truthy(locals.ai_response) =>
              /\ Len(outbox) = 1
              /\ outbox[1].kind = "text"
              /\ outbox[1].body \in WaApologies \cup {WaMsgPrompt}
        /\ Truthy(locals.ai_response) =>
              \A i \in 1..Len(outbox) :
                  /\ outbox[i].body = locals.ai_response
                  /\ outbox[i].body \notin WaApologies \cup {WaMsgPrompt}

C30_Witness ==
    /\ Done("whatsapp")
    /\ TookAudioPath
    /\ env.process # Unreached
    /\ env.process.tmp_ok
    /\ \A i \in 1..NumCommands : env.process.runs[i] = "nonzero"
    /\ Len(outbox) = 1
    /\ outbox[1].body = WaMsgNoProcess

\* what a request's own payload and own backend results make of it
ExpectedResult(w) ==
    IF ~env[w].success THEN None
    ELSE IF request[w] = "tts" THEN UrlOf(Mp3(Speech(ReplyOf(w))))
    ELSE Wav(BytesOf(w))

====
